---------------------------- MODULE Spec2Model ----------------------------
(***************************************************************************)
(* Model of bitcoin/src/consensus/serde.rs: serde (de)serialization of a   *)
(* value through its consensus ("native") encoding.                        *)
(*                                                                         *)
(* Text is modelled as Rust models it: a &str is a sequence of UTF-8 code  *)
(* units (u8), so '0' is 48, 'a' is 97, 'g' is 103.  The native encoder    *)
(* and the native decoder (Encodable / Decodable), the serde target and    *)
(* the serde source are the environment: they choose the chunks written,   *)
(* the results returned and the failures of the sink.                      *)
(***************************************************************************)
EXTENDS Integers, Sequences, FiniteSets, TLC

VARIABLES
    pc,             \* "idle" | "encoding" | "ser_done" | "decoding" | "de_done" | "panic"
    hr,             \* serializer.is_human_readable() / deserializer.is_human_readable()
    debug,          \* cfg(debug_assertions)
    hcase,          \* the hex Case of the strategy marker: "Lower" | "Upper"
    seed,           \* selects the byte stream the native encoder emits
    pos,            \* bytes the native encoder has passed to write so far
    writes,         \* number of write calls the native encoder has made
    buf,            \* hex::Encoder: the BufEncoder's text
    sink,           \* the strings the downstream fmt sink accepted, one per write_str
    was_error,      \* ErrorTrackingWriter::was_error
    sinkFailures,   \* failures the serde target has reported so far
    flushCalls,     \* calls of IoWrapper::actually_flush
    ioFlushCalls,   \* calls of io::Write::flush by the native encoder
    collectStrCalls,\* calls of Serializer::collect_str
    seqOpens,       \* calls of Serializer::serialize_seq
    seqLenHint,     \* the length hints given to serialize_seq (<<>> is None)
    elements,       \* the bytes the sequence sink accepted as elements
    error,          \* BinWriter::error: <<>> is None, <<e>> is Some(e)
    endCalls,       \* calls of SerializeSeq::end
    encResult,      \* what consensus_encode returned: "none" | "Ok" | an io error
    result,         \* what With::serialize returned: <<>> | <<"Ok">> | <<"Err", e>>
    lastWrite,      \* what the last write call of the native encoder returned
    failLog,        \* the target's operations that failed, in order; failure k has id k
    dsrc,           \* deserialize: the string (code units) or the sequence's elements
    fromSer,        \* the source is what serialize produced
    dpos,           \* items the IterReader's iterator has yielded
    delivered,      \* bytes handed to the native decoder
    rerror,         \* IterReader::error: <<>> is None, <<e>> is Some(e)
    decInvoked,     \* consensus_decode was called
    reads,          \* number of read calls the native decoder has made
    decResult,      \* what consensus_decode returned: <<>> | <<r>>
    derr,           \* the DecodeError IterReader::decode returned, <<>> if none
    dresult         \* what With::deserialize returned: <<>> | <<"Ok">> | <<"Err", e>>

serVars == <<hcase, seed, pos, writes, buf, sink, was_error, sinkFailures,
             flushCalls, ioFlushCalls, collectStrCalls, seqOpens, seqLenHint,
             elements, error, endCalls, encResult, result, lastWrite, failLog>>
deVars == <<dsrc, fromSer, dpos, delivered, rerror, decInvoked, reads, decResult,
           derr, dresult>>
vars == <<pc, hr, debug, serVars, deVars>>

(***************************************************************************)
(* Bounds of the model.                                                    *)
(***************************************************************************)
MaxWrites == 3
MaxIoFlushes == 1
ExtraBytes == 2
MaxSinkFailures == 2
MaxReads == 2
MaxStrLen == 4
MaxSeqLen == 3

(***************************************************************************)
(* hex::Encoder                                                            *)
(***************************************************************************)
HEX_BUF_SIZE == 512

Min(a, b) == IF a <= b THEN a ELSE b

\* The digit tables of hex::Case: "0123456789abcdef" and "0123456789ABCDEF".
CaseTable(c) ==
    IF c = "Lower"
    THEN <<48, 49, 50, 51, 52, 53, 54, 55, 56, 57, 97, 98, 99, 100, 101, 102>>
    ELSE <<48, 49, 50, 51, 52, 53, 54, 55, 56, 57, 65, 66, 67, 68, 69, 70>>

\* The text BufEncoder::put_bytes appends for bytes: two digits per byte, the
\* high nibble first.
HexOfBytes(c, bytes) ==
    [i \in 1..(2 * Len(bytes)) |->
        LET b == bytes[(i + 1) \div 2]
        IN  IF i % 2 = 1 THEN CaseTable(c)[(b \div 16) + 1]
                         ELSE CaseTable(c)[(b % 16) + 1]]

\* BufEncoder::is_full: no room for another byte.
is_full(b) == Len(b) = HEX_BUF_SIZE

\* BufEncoder::space_remaining, in bytes.
space_remaining(b) == (HEX_BUF_SIZE - Len(b)) \div 2

\* put_bytes_min without the minimum: every byte is appended.
put_bytes_all(c, b, bytes) ==
    [buf  |-> b \o HexOfBytes(c, bytes),
     rest |-> <<>>]

\* BufEncoder::put_bytes_min: encodes as many bytes as fit, returns the rest.
put_bytes_min(c, b, bytes) ==
    LET n == Min(space_remaining(b), Len(bytes))
    IN  [buf  |-> b \o HexOfBytes(c, SubSeq(bytes, 1, n)),
         rest |-> SubSeq(bytes, n + 1, Len(bytes))]

(***************************************************************************)
(* ErrorTrackingWriter.  A writer state w is a record                      *)
(*   [sink, was_error, fails, res]                                         *)
(* where res is the result of the last call: "Ok", "Err" or "Panic".       *)
(***************************************************************************)
\* set_error that leaves the flag as it is.
set_error_unset(dbg, flag, was) == flag

\* set_error: was_error |= was, in debug builds only.
set_error(dbg, flag, was) == IF dbg THEN flag \/ was ELSE flag

\* assert_no_error panics in debug builds when was_error is set.
assert_no_error(dbg, flag) == ~(dbg /\ flag)

\* assert_was_error panics in debug builds when was_error is not set.
assert_was_error(dbg, flag) == ~(dbg /\ ~flag)

\* fmt::Write::write_str for ErrorTrackingWriter; sinkFails is the downstream
\* sink's answer to this call.
write_str(dbg, w, s, sinkFails) ==
    IF ~assert_no_error(dbg, w.was_error)
    THEN [w EXCEPT !.res = "Panic"]
    ELSE [sink      |-> IF sinkFails THEN w.sink ELSE Append(w.sink, s),
          was_error |-> set_error(dbg, w.was_error, sinkFails),
          fails     |-> w.fails + (IF sinkFails THEN 1 ELSE 0),
          res       |-> IF sinkFails THEN "Err" ELSE "Ok"]

(***************************************************************************)
(* EncodeBytes for hex::Encoder.  An encoder state e is [buf, w].          *)
(* failAt counts the downstream write_str calls of this call down to the   *)
(* one that fails (0 or less: none fails).                                 *)
(***************************************************************************)
\* flush writing the buffer's text short of its last character.
flush_short(dbg, e, sinkFails) ==
    LET w == write_str(dbg, e.w, SubSeq(e.buf, 1, Len(e.buf) - 1), sinkFails)
    IN  IF w.res = "Ok" THEN [buf |-> <<>>, w |-> w]
                        ELSE [buf |-> e.buf, w |-> w]

\* flush clearing the buffer before it writes the buffer's text.
flush_clear_first(dbg, e, sinkFails) ==
    [buf |-> <<>>, w |-> write_str(dbg, e.w, <<>>, sinkFails)]

\* flush: write the buffer's text, and clear the buffer if that succeeded.
flush(dbg, e, sinkFails) ==
    LET w == write_str(dbg, e.w, e.buf, sinkFails)
    IN  IF w.res = "Ok" THEN [buf |-> <<>>, w |-> w]
                        ELSE [buf |-> e.buf, w |-> w]

\* encode_chunk with `if` for `while`: what does not fit after one pass is dropped.
encode_chunk_once(dbg, c, e, bytes, failAt) ==
    IF bytes = <<>>
    THEN [e EXCEPT !.w.res = "Ok"]
    ELSE IF is_full(e.buf)
         THEN LET f == flush(dbg, e, failAt = 1)
              IN  IF f.w.res # "Ok"
                  THEN f
                  ELSE [buf |-> put_bytes_min(c, f.buf, bytes).buf,
                        w   |-> [f.w EXCEPT !.res = "Ok"]]
         ELSE [buf |-> put_bytes_min(c, e.buf, bytes).buf,
               w   |-> [e.w EXCEPT !.res = "Ok"]]

\* encode_chunk flushing as soon as the buffer is full, before it looks for more
\* bytes.
RECURSIVE encode_chunk_eager(_, _, _, _, _)
encode_chunk_eager(dbg, c, e, bytes, failAt) ==
    IF bytes = <<>>
    THEN [e EXCEPT !.w.res = "Ok"]
    ELSE LET p == put_bytes_min(c, e.buf, bytes)
             e1 == [e EXCEPT !.buf = p.buf]
         IN  IF is_full(p.buf)
             THEN LET f == flush(dbg, e1, failAt = 1)
                  IN  IF f.w.res # "Ok"
                      THEN f
                      ELSE encode_chunk_eager(dbg, c, f, p.rest, failAt - 1)
             ELSE encode_chunk_eager(dbg, c, e1, p.rest, failAt)

RECURSIVE encode_chunk(_, _, _, _, _)
encode_chunk(dbg, c, e, bytes, failAt) ==
    IF bytes = <<>>
    THEN [e EXCEPT !.w.res = "Ok"]
    ELSE IF is_full(e.buf)
         THEN LET f == flush(dbg, e, failAt = 1)
              IN  IF f.w.res # "Ok"
                  THEN f
                  ELSE LET p == put_bytes_min(c, f.buf, bytes)
                       IN  encode_chunk(dbg, c, [f EXCEPT !.buf = p.buf], p.rest, failAt - 1)
         ELSE LET p == put_bytes_min(c, e.buf, bytes)
              IN  encode_chunk(dbg, c, [e EXCEPT !.buf = p.buf], p.rest, failAt)

(***************************************************************************)
(* io::Result<usize> of a write call: Ok(count), or Err(error) with the    *)
(* error's kind and whether it carries a cause (get_ref().is_some());      *)
(* "Panic" when the call did not return, "none" before any call.  failed   *)
(* is the downstream call of this write that the target failed (0: none).  *)
(***************************************************************************)
IoOk(n) == [res |-> "Ok", count |-> n, kind |-> "", cause |-> FALSE, failed |-> 0]
IoErrOther == [res |-> "Err", count |-> 0, kind |-> "Other", cause |-> FALSE, failed |-> 0]
IoPanic == [res |-> "Panic", count |-> 0, kind |-> "", cause |-> FALSE, failed |-> 0]
NoWrite == [res |-> "none", count |-> 0, kind |-> "", cause |-> FALSE, failed |-> 0]

\* io::Write::write for IoWrapper reporting, as a buffered writer might, the bytes
\* the buffer had room for.
IoWrapper_write_partial(dbg, c, e, bytes, failAt) ==
    LET r == encode_chunk(dbg, c, e, bytes, failAt)
    IN  IF r.w.res = "Panic"
        THEN [buf |-> r.buf, w |-> r.w, ret |-> IoPanic]
        ELSE IF r.w.res = "Err"
             THEN IF assert_was_error(dbg, r.w.was_error)
                  THEN [buf |-> r.buf, w |-> r.w, ret |-> IoErrOther]
                  ELSE [buf |-> r.buf, w |-> r.w, ret |-> IoPanic]
             ELSE [buf |-> r.buf, w |-> r.w,
                   ret |-> IoOk(Min(Len(bytes), space_remaining(e.buf)))]

\* io::Write::write for IoWrapper: Ok(bytes.len()), or after assert_was_error
\* io::Error::from(io::ErrorKind::Other).  The encoder state it leaves, with what
\* it returns in ret.
IoWrapper_write(dbg, c, e, bytes, failAt) ==
    LET r == encode_chunk(dbg, c, e, bytes, failAt)
    IN  IF r.w.res = "Panic"
        THEN [buf |-> r.buf, w |-> r.w, ret |-> IoPanic]
        ELSE IF r.w.res = "Err"
             THEN IF assert_was_error(dbg, r.w.was_error)
                  THEN [buf |-> r.buf, w |-> r.w, ret |-> IoErrOther]
                  ELSE [buf |-> r.buf, w |-> r.w, ret |-> IoPanic]
             ELSE [buf |-> r.buf, w |-> r.w, ret |-> IoOk(Len(bytes))]

(***************************************************************************)
(* The native encoder's byte stream.  Byte i of the stream of a seed; the  *)
(* step 37 is odd, so 256 consecutive bytes take every value.              *)
(***************************************************************************)
Seeds == {0}
ByteAt(s, i) == (s + 37 * i) % 256
Chunk(s, p, n) == [i \in 1..n |-> ByteAt(s, p + i)]
Written(s, p) == Chunk(s, 0, p)

BufBytes == HEX_BUF_SIZE \div 2
MaxBytes == 2 * BufBytes + ExtraBytes
ChunkSizes == {0, 1, 2, BufBytes - 1, BufBytes, BufBytes + 1, 2 * BufBytes + 1}
Cases == {"Lower", "Upper"}

\* The concatenation of a sequence of strings.
RECURSIVE Flatten(_)
Flatten(ss) == IF ss = <<>> THEN <<>> ELSE Flatten(SubSeq(ss, 1, Len(ss) - 1)) \o ss[Len(ss)]

(***************************************************************************)
(* BinWriter                                                               *)
(***************************************************************************)
\* write_all storing an error of its own making (0) for the one the sink returned.
BinWriter_write_all_substitute(b, bytes, failAt) ==
    IF failAt \in 1..Len(bytes)
    THEN [elements |-> b.elements \o SubSeq(bytes, 1, failAt - 1),
          error    |-> <<0>>,
          fails    |-> b.fails + 1,
          res      |-> "Err"]
    ELSE [elements |-> b.elements \o bytes,
          error    |-> b.error,
          fails    |-> b.fails,
          res      |-> "Ok"]

\* write_all without the return in its loop: the bytes after the failing element
\* are passed to the sink as well.
BinWriter_write_all_continue(b, bytes, failAt) ==
    IF failAt \in 1..Len(bytes)
    THEN [elements |-> b.elements \o SubSeq(bytes, 1, failAt - 1)
                                 \o SubSeq(bytes, failAt + 1, Len(bytes)),
          error    |-> <<b.fails + 1>>,
          fails    |-> b.fails + 1,
          res      |-> "Err"]
    ELSE [elements |-> b.elements \o bytes,
          error    |-> b.error,
          fails    |-> b.fails,
          res      |-> "Ok"]

\* io::Write::write_all for BinWriter: one serialize_element per byte; the sink
\* fails at element failAt of this call (0: at none).  A state b is
\* [elements, error, fails, res].
BinWriter_write_all(b, bytes, failAt) ==
    IF failAt \in 1..Len(bytes)
    THEN [elements |-> b.elements \o SubSeq(bytes, 1, failAt - 1),
          error    |-> <<b.fails + 1>>,
          fails    |-> b.fails + 1,
          res      |-> "Err"]
    ELSE [elements |-> b.elements \o bytes,
          error    |-> b.error,
          fails    |-> b.fails,
          res      |-> "Ok"]

\* io::Write::write for BinWriter: write_all(buf).map(|_| buf.len()).
BinWriter_write(b, bytes, failAt) ==
    LET r == BinWriter_write_all(b, bytes, failAt)
    IN  [elements |-> r.elements, error |-> r.error, fails |-> r.fails,
         ret |-> IF r.res = "Ok" THEN IoOk(Len(bytes)) ELSE IoErrOther]

(***************************************************************************)
(* Init                                                                    *)
(***************************************************************************)
Init ==
    /\ pc = "idle"
    /\ hr = FALSE
    /\ debug = TRUE
    /\ hcase = "Lower"
    /\ seed \in Seeds
    /\ pos = 0
    /\ writes = 0
    /\ buf = <<>>
    /\ sink = <<>>
    /\ was_error = FALSE
    /\ sinkFailures = 0
    /\ flushCalls = 0
    /\ ioFlushCalls = 0
    /\ collectStrCalls = 0
    /\ seqOpens = 0
    /\ seqLenHint = <<>>
    /\ elements = <<>>
    /\ error = <<>>
    /\ endCalls = 0
    /\ encResult = "none"
    /\ result = <<>>
    /\ lastWrite = NoWrite
    /\ failLog = <<>>
    /\ dsrc = <<>>
    /\ fromSer = FALSE
    /\ dpos = 0
    /\ delivered = <<>>
    /\ rerror = <<>>
    /\ decInvoked = FALSE
    /\ reads = 0
    /\ decResult = <<>>
    /\ derr = <<>>
    /\ dresult = <<>>

(***************************************************************************)
(* With::serialize                                                         *)
(***************************************************************************)
\* The human-readable branch: collect_str is handed the DisplayWrapper, whose fmt
\* builds the IoWrapper (empty buffer, was_error false) and calls consensus_encode.
SerializeHR ==
    /\ pc = "idle"
    /\ \E d \in BOOLEAN, c \in Cases :
        /\ hr' = TRUE
        /\ debug' = d
        /\ hcase' = c
    /\ collectStrCalls' = collectStrCalls + 1
    /\ buf' = <<>>
    /\ was_error' = FALSE
    /\ pc' = "encoding"
    /\ UNCHANGED <<seed, pos, writes, sink, sinkFailures, flushCalls, ioFlushCalls,
                   seqOpens, seqLenHint, elements, error, endCalls, encResult, result,
                   lastWrite, failLog>>
    /\ UNCHANGED deVars

\* The binary branch: serialize_seq(None)?, then BinWriter { serializer, error: None }
\* and consensus_encode.
SerializeBin ==
    /\ pc = "idle"
    /\ hr' = FALSE
    /\ \E d \in BOOLEAN : debug' = d
    /\ seqOpens' = seqOpens + 1
    /\ seqLenHint' = Append(seqLenHint, <<>>)
    /\ \E seqFails \in BOOLEAN :
        IF seqFails
        THEN /\ sinkFailures' = sinkFailures + 1
             /\ failLog' = Append(failLog, "serialize_seq")
             /\ result' = <<"Err", sinkFailures + 1>>
             /\ pc' = "ser_done"
        ELSE /\ pc' = "encoding"
             /\ UNCHANGED <<sinkFailures, failLog, result>>
    /\ error' = <<>>
    /\ UNCHANGED <<hcase, seed, pos, writes, buf, sink, was_error, flushCalls,
                   ioFlushCalls, collectStrCalls, elements, endCalls, encResult,
                   lastWrite>>
    /\ UNCHANGED deVars

\* The native encoder calls write on the IoWrapper.
WriteHR ==
    /\ pc = "encoding"
    /\ hr
    /\ writes < MaxWrites
    /\ \E n \in ChunkSizes, failAt \in (IF sinkFailures < MaxSinkFailures THEN 0..2 ELSE {0}) :
        /\ pos + n <= MaxBytes
        /\ LET e == [buf |-> buf,
                     w   |-> [sink |-> sink, was_error |-> was_error,
                              fails |-> sinkFailures, res |-> "Ok"]]
               r == IoWrapper_write(debug, hcase, e, Chunk(seed, pos, n), failAt)
           IN  /\ buf' = r.buf
               /\ sink' = r.w.sink
               /\ was_error' = r.w.was_error
               /\ sinkFailures' = r.w.fails
               /\ failLog' = IF r.w.fails > sinkFailures THEN Append(failLog, "write_str")
                                                         ELSE failLog
               /\ lastWrite' = [r.ret EXCEPT !.failed = IF r.w.fails > sinkFailures
                                                        THEN failAt ELSE 0]
               /\ pc' = IF r.ret.res = "Panic" THEN "panic" ELSE "encoding"
        /\ pos' = pos + n
    /\ writes' = writes + 1
    /\ UNCHANGED <<hr, debug, hcase, seed, flushCalls, ioFlushCalls, collectStrCalls,
                   seqOpens, seqLenHint, elements, error, endCalls, encResult, result>>
    /\ UNCHANGED deVars

\* The native encoder calls write (write_all, then buf.len()) on the BinWriter.
WriteBin ==
    /\ pc = "encoding"
    /\ ~hr
    /\ writes < MaxWrites
    /\ \E n \in ChunkSizes : \E failAt \in (IF sinkFailures < MaxSinkFailures THEN {0, 1, n} ELSE {0}) :
        /\ pos + n <= MaxBytes
        /\ LET b == [elements |-> elements, error |-> error,
                     fails |-> sinkFailures, res |-> "Ok"]
               r == BinWriter_write(b, Chunk(seed, pos, n), failAt)
           IN  /\ elements' = r.elements
               /\ error' = r.error
               /\ sinkFailures' = r.fails
               /\ failLog' = IF r.fails > sinkFailures
                             THEN Append(failLog, "serialize_element") ELSE failLog
               /\ lastWrite' = [r.ret EXCEPT !.failed = IF r.fails > sinkFailures
                                                        THEN failAt ELSE 0]
        /\ pos' = pos + n
    /\ writes' = writes + 1
    /\ UNCHANGED <<pc, hr, debug, hcase, seed, buf, sink, was_error, flushCalls,
                   ioFlushCalls, collectStrCalls, seqOpens, seqLenHint, endCalls,
                   encResult, result>>
    /\ UNCHANGED deVars

\* IoWrapper::actually_flush: the encoder's flush on the tracked writer.
actually_flush(dbg, e, sinkFails) == flush(dbg, e, sinkFails)

\* io::Write::flush for IoWrapper passing the flush on to the encoder.
IoWrapper_flush_eager ==
    /\ pc = "encoding"
    /\ hr
    /\ ioFlushCalls < MaxIoFlushes
    /\ ioFlushCalls' = ioFlushCalls + 1
    /\ LET e == [buf |-> buf,
                 w   |-> [sink |-> sink, was_error |-> was_error,
                          fails |-> sinkFailures, res |-> "Ok"]]
           f == actually_flush(debug, e, FALSE)
       IN  /\ buf' = f.buf
           /\ sink' = f.w.sink
           /\ was_error' = f.w.was_error
           /\ sinkFailures' = f.w.fails
           /\ pc' = IF f.w.res = "Panic" THEN "panic" ELSE "encoding"
    /\ flushCalls' = flushCalls + 1
    /\ UNCHANGED <<hr, debug, hcase, seed, pos, writes, collectStrCalls, seqOpens,
                   seqLenHint, elements, error, endCalls, encResult, result,
                   lastWrite, failLog>>
    /\ UNCHANGED deVars

\* io::Write::flush for IoWrapper: ignored, Ok(()).
IoWrapper_flush ==
    /\ pc = "encoding"
    /\ hr
    /\ ioFlushCalls < MaxIoFlushes
    /\ ioFlushCalls' = ioFlushCalls + 1
    /\ UNCHANGED <<pc, hr, debug, hcase, seed, pos, writes, buf, sink, was_error,
                   sinkFailures, flushCalls, collectStrCalls, seqOpens, seqLenHint,
                   elements, error, endCalls, encResult, result, lastWrite, failLog>>
    /\ UNCHANGED deVars

\* io::Write::flush for BinWriter: Ok(()).
BinWriter_flush ==
    /\ pc = "encoding"
    /\ ~hr
    /\ ioFlushCalls < MaxIoFlushes
    /\ ioFlushCalls' = ioFlushCalls + 1
    /\ UNCHANGED <<pc, hr, debug, hcase, seed, pos, writes, buf, sink, was_error,
                   sinkFailures, flushCalls, collectStrCalls, seqOpens, seqLenHint,
                   elements, error, endCalls, encResult, result, lastWrite, failLog>>
    /\ UNCHANGED deVars

\* What consensus_encode may return: Ok, or an io::Error that is kind Other without
\* a cause, kind Other with a cause, or of another kind.
EncResults == {"Ok", "Other", "OtherWithCause", "NotOther"}

\* DisplayWrapper::fmt without the debug check of the error consensus_encode returned.
DisplayWrapper_fmt_unchecked(dbg, e, r, sinkFails) ==
    IF r # "Ok"
    THEN [e |-> e, res |-> "Err", flushed |-> 0]
    ELSE LET f == actually_flush(dbg, e, sinkFails)
         IN  IF f.w.res = "Panic"
             THEN [e |-> f, res |-> "Panic", flushed |-> 1]
             ELSE IF f.w.res = "Err"
                  THEN IF assert_was_error(dbg, f.w.was_error)
                       THEN [e |-> f, res |-> "Err", flushed |-> 1]
                       ELSE [e |-> f, res |-> "Panic", flushed |-> 1]
                  ELSE [e |-> f, res |-> "Ok", flushed |-> 1]

\* DisplayWrapper::fmt without the final flush.
DisplayWrapper_fmt_noflush(dbg, e, r, sinkFails) ==
    IF r # "Ok"
    THEN IF dbg /\ (r # "Other" \/ ~e.w.was_error)
         THEN [e |-> e, res |-> "Panic", flushed |-> 0]
         ELSE [e |-> e, res |-> "Err", flushed |-> 0]
    ELSE [e |-> e, res |-> "Ok", flushed |-> 0]

\* DisplayWrapper::fmt once consensus_encode has returned r; "Ok", "Err"
\* (fmt::Error) or "Panic" in res, with the encoder state it leaves and the number of
\* actually_flush calls.
DisplayWrapper_fmt(dbg, e, r, sinkFails) ==
    IF r # "Ok"
    THEN IF dbg /\ (r # "Other" \/ ~e.w.was_error)
         THEN [e |-> e, res |-> "Panic", flushed |-> 0]
         ELSE [e |-> e, res |-> "Err", flushed |-> 0]
    ELSE LET f == actually_flush(dbg, e, sinkFails)
         IN  IF f.w.res = "Panic"
             THEN [e |-> f, res |-> "Panic", flushed |-> 1]
             ELSE IF f.w.res = "Err"
                  THEN IF assert_was_error(dbg, f.w.was_error)
                       THEN [e |-> f, res |-> "Err", flushed |-> 1]
                       ELSE [e |-> f, res |-> "Panic", flushed |-> 1]
                  ELSE [e |-> f, res |-> "Ok", flushed |-> 1]

\* consensus_encode returns on the human-readable path: the rest of fmt, and
\* collect_str's answer, which is fmt's (a target that streams the Display).
ReturnHR ==
    /\ pc = "encoding"
    /\ hr
    /\ \E r \in EncResults, sinkFails \in BOOLEAN :
        /\ encResult' = r
        /\ LET e == [buf |-> buf,
                     w   |-> [sink |-> sink, was_error |-> was_error,
                              fails |-> sinkFailures, res |-> "Ok"]]
               d == DisplayWrapper_fmt(debug, e, r, sinkFails)
           IN  /\ buf' = d.e.buf
               /\ sink' = d.e.w.sink
               /\ was_error' = d.e.w.was_error
               /\ sinkFailures' = d.e.w.fails
               /\ failLog' = IF d.e.w.fails > sinkFailures THEN Append(failLog, "write_str")
                                                           ELSE failLog
               /\ flushCalls' = flushCalls + d.flushed
               /\ pc' = IF d.res = "Panic" THEN "panic" ELSE "ser_done"
               /\ result' = IF d.res = "Panic" THEN <<>>
                            ELSE IF d.res = "Ok" THEN <<"Ok">> ELSE <<"Err", 0>>
    /\ UNCHANGED <<hr, debug, hcase, seed, pos, writes, ioFlushCalls, collectStrCalls,
                   seqOpens, seqLenHint, elements, error, endCalls, lastWrite>>
    /\ UNCHANGED deVars

\* The match closing the sequence before it returns the stored error.
BinMatch_end_on_error(r, err) ==
    IF r = "Ok" /\ err = <<>> THEN "End"
    ELSE IF r = "Ok" THEN "Panic"
    ELSE IF r = "Other" /\ err # <<>> THEN "End"
    ELSE "Panic"

\* The match on (result, writer.error) of the binary branch: "End" (call end()),
\* "Err" (return the stored error) or "Panic".
BinMatch(r, err) ==
    IF r = "Ok" /\ err = <<>> THEN "End"
    ELSE IF r = "Ok" THEN "Panic"
    ELSE IF r = "Other" /\ err # <<>> THEN "Err"
    ELSE "Panic"

\* consensus_encode returns on the binary path.
ReturnBin ==
    /\ pc = "encoding"
    /\ ~hr
    /\ \E r \in EncResults, endFails \in BOOLEAN :
        /\ encResult' = r
        /\ LET m == BinMatch(r, error)
           IN  /\ pc' = IF m = "Panic" THEN "panic" ELSE "ser_done"
               /\ endCalls' = IF m = "End" THEN endCalls + 1 ELSE endCalls
               /\ sinkFailures' = IF m = "End" /\ endFails THEN sinkFailures + 1
                                  ELSE sinkFailures
               /\ failLog' = IF m = "End" /\ endFails THEN Append(failLog, "end")
                                                       ELSE failLog
               /\ result' = IF m = "Panic" THEN <<>>
                            ELSE IF m = "Err" THEN <<"Err", error[1]>>
                            ELSE IF endFails THEN <<"Err", sinkFailures + 1>>
                            ELSE <<"Ok">>
    /\ UNCHANGED <<hr, debug, hcase, seed, pos, writes, buf, sink, was_error,
                   flushCalls, ioFlushCalls, collectStrCalls, seqOpens, seqLenHint,
                   elements, error, lastWrite>>
    /\ UNCHANGED deVars


(***************************************************************************)
(* serde::de::Error values: custom(msg), invalid_length(len, exp) and      *)
(* invalid_value(unexp, exp), with Unexpected::{Char, Unsigned, Bytes,     *)
(* Signed} as ukind and its payload in unum or ubytes.                     *)
(***************************************************************************)
Custom(m) ==
    [kind |-> "custom", msg |-> m, len |-> 0,
     ukind |-> "", unum |-> 0, ubytes |-> <<>>, exp |-> ""]
InvalidLength(n, e) ==
    [kind |-> "invalid_length", msg |-> "", len |-> n,
     ukind |-> "", unum |-> 0, ubytes |-> <<>>, exp |-> e]
InvalidValue(uk, un, ub, e) ==
    [kind |-> "invalid_value", msg |-> "", len |-> 0,
     ukind |-> uk, unum |-> un, ubytes |-> ub, exp |-> e]

(***************************************************************************)
(* hex::Decoder                                                            *)
(***************************************************************************)
\* char::to_digit(16) of a code unit: <<d>>, or <<>> for None.
to_digit(c) ==
    IF c \in 48..57 THEN <<c - 48>>
    ELSE IF c \in 97..102 THEN <<c - 87>>
    ELSE IF c \in 65..70 THEN <<c - 55>>
    ELSE <<>>

\* Decoder::new without the check of the length.
Decoder_new_unchecked(s) == [ok |-> TRUE, length |-> Len(s)]

\* Decoder::new: HexToBytesIter::new fails on a string of odd length with an
\* OddLengthStringError holding the length.
Decoder_new(s) ==
    IF Len(s) % 2 # 0 THEN [ok |-> FALSE, length |-> Len(s)]
                      ELSE [ok |-> TRUE, length |-> Len(s)]

\* Decoder::next checking the low digit of a pair before the high one.
Decoder_next_lo_first(s, k) ==
    IF 2 * k > Len(s) THEN <<>>
    ELSE LET hi == s[2 * k - 1]
             lo == s[2 * k]
         IN  IF to_digit(lo) = <<>> THEN <<[ok |-> FALSE, byte |-> 0, err |-> lo]>>
             ELSE IF to_digit(hi) = <<>> THEN <<[ok |-> FALSE, byte |-> 0, err |-> hi]>>
             ELSE <<[ok |-> TRUE, byte |-> to_digit(hi)[1] * 16 + to_digit(lo)[1], err |-> 0]>>

\* Decoder::next, the k-th time: the k-th pair of code units as a byte, or the
\* InvalidCharError of its first code unit that is no hex digit; <<>> at the end.
Decoder_next(s, k) ==
    IF 2 * k > Len(s) THEN <<>>
    ELSE LET hi == s[2 * k - 1]
             lo == s[2 * k]
         IN  IF to_digit(hi) = <<>> THEN <<[ok |-> FALSE, byte |-> 0, err |-> hi]>>
             ELSE IF to_digit(lo) = <<>> THEN <<[ok |-> FALSE, byte |-> 0, err |-> lo]>>
             ELSE <<[ok |-> TRUE, byte |-> to_digit(hi)[1] * 16 + to_digit(lo)[1], err |-> 0]>>

\* IntoDeError for hex::DecodeInitError.
DecodeInitError_into_de_error(length) ==
    InvalidLength(length, "an even number of ASCII-encoded hex digits")

\* IntoDeError for hex::DecodeError; c.is_ascii() is c < 128.
hex_DecodeError_into_de_error(c) ==
    IF c < 128 THEN InvalidValue("Char", c, <<>>, "an ASCII-encoded hex digit")
               ELSE InvalidValue("Unsigned", c, <<>>, "an ASCII-encoded hex digit")

(***************************************************************************)
(* SeqIterator.  An element of a binary source is a byte, or a negative    *)
(* number: an element for which next_element::<u8>() returns the source's  *)
(* own error.                                                              *)
(***************************************************************************)
SourceError(x) == InvalidValue("Signed", x, <<>>, "u8")

\* SeqIterator::next, the k-th time: next_element::<u8>().transpose().
SeqIterator_next(s, k) ==
    IF k > Len(s) THEN <<>>
    ELSE IF s[k] < 0 THEN <<[ok |-> FALSE, byte |-> 0, err |-> SourceError(s[k])]>>
    ELSE <<[ok |-> TRUE, byte |-> s[k], err |-> SourceError(0)]>>

(***************************************************************************)
(* ParseError and its conversion.                                          *)
(***************************************************************************)
PE(k, req, mx, ex, ac, m, f) ==
    [kind |-> k, requested |-> req, max |-> mx, expected |-> ex, actual |-> ac,
     msg |-> m, flag |-> f]
MissingData == PE("MissingData", 0, 0, <<>>, <<>>, "", 0)
OversizedVectorAllocation(req, mx) == PE("OversizedVectorAllocation", req, mx, <<>>, <<>>, "", 0)
InvalidChecksum(ex, ac) == PE("InvalidChecksum", 0, 0, ex, ac, "", 0)
NonMinimalVarInt == PE("NonMinimalVarInt", 0, 0, <<>>, <<>>, "", 0)
ParseFailed(m) == PE("ParseFailed", 0, 0, <<>>, <<>>, m, 0)
UnsupportedSegwitFlag(f) == PE("UnsupportedSegwitFlag", 0, 0, <<>>, <<>>, "", f)

\* The parse failures the native decoder returns in the model.
ParseErrors ==
    {MissingData,
     OversizedVectorAllocation(1000000, 4000),
     InvalidChecksum(<<222, 173, 190, 239>>, <<0, 0, 0, 0>>),
     InvalidChecksum(<<0, 10, 255, 16>>, <<1, 2, 3, 4>>),
     NonMinimalVarInt,
     ParseFailed("parse failed"),
     UnsupportedSegwitFlag(255)}

HexDigit == <<"0", "1", "2", "3", "4", "5", "6", "7", "8", "9",
              "a", "b", "c", "d", "e", "f">>

\* Display of an unsigned integer: "{}".
RECURSIVE FmtDec(_)
FmtDec(n) == IF n < 10 THEN HexDigit[n + 1]
             ELSE FmtDec(n \div 10) \o HexDigit[(n % 10) + 1]

\* LowerHex of a u8 with width 2 and zero padding: "{:02x}".
Fmt02x(b) == HexDigit[(b \div 16) + 1] \o HexDigit[(b % 16) + 1]

\* consensus_error_into_serde with expected and actual exchanged in the
\* InvalidChecksum arm.
consensus_error_into_serde_swapped(e) ==
    CASE e.kind = "MissingData" ->
            Custom("missing data (early end of file or slice too short)")
      [] e.kind = "OversizedVectorAllocation" ->
            Custom("the requested allocation of " \o FmtDec(e.requested)
                   \o " items exceeds maximum of " \o FmtDec(e.max))
      [] e.kind = "InvalidChecksum" ->
            InvalidValue("Bytes", 0, e.expected,
                         "checksum " \o Fmt02x(e.actual[1]) \o Fmt02x(e.actual[2])
                         \o Fmt02x(e.actual[3]) \o Fmt02x(e.actual[4]))
      [] e.kind = "NonMinimalVarInt" ->
            Custom("compact size was not encoded minimally")
      [] e.kind = "ParseFailed" -> Custom(e.msg)
      [] e.kind = "UnsupportedSegwitFlag" ->
            InvalidValue("Unsigned", e.flag, <<>>, "segwit version 1 flag")

consensus_error_into_serde(e) ==
    CASE e.kind = "MissingData" ->
            Custom("missing data (early end of file or slice too short)")
      [] e.kind = "OversizedVectorAllocation" ->
            Custom("the requested allocation of " \o FmtDec(e.requested)
                   \o " items exceeds maximum of " \o FmtDec(e.max))
      [] e.kind = "InvalidChecksum" ->
            InvalidValue("Bytes", 0, e.actual,
                         "checksum " \o Fmt02x(e.expected[1]) \o Fmt02x(e.expected[2])
                         \o Fmt02x(e.expected[3]) \o Fmt02x(e.expected[4]))
      [] e.kind = "NonMinimalVarInt" ->
            Custom("compact size was not encoded minimally")
      [] e.kind = "ParseFailed" -> Custom(e.msg)
      [] e.kind = "UnsupportedSegwitFlag" ->
            InvalidValue("Unsigned", e.flag, <<>>, "segwit version 1 flag")

(***************************************************************************)
(* DecodeError<E>: [tag, other, parse], other and parse being Options.     *)
(***************************************************************************)
DE_Other(e) == [tag |-> "Other", other |-> <<e>>, parse |-> <<>>]
DE_Unconsumed == [tag |-> "Unconsumed", other |-> <<>>, parse |-> <<>>]
DE_Parse(p) == [tag |-> "Parse", other |-> <<>>, parse |-> <<p>>]

\* unify with the Unconsumed arm reporting missing data.
unify_mislabel(e) ==
    CASE e.tag = "Other" -> e.other[1]
      [] e.tag = "Unconsumed" ->
            Custom("missing data (early end of file or slice too short)")
      [] e.tag = "Parse" -> consensus_error_into_serde(e.parse[1])

\* DecodeError::unify, E being the source's error type.
unify(e) ==
    CASE e.tag = "Other" -> e.other[1]
      [] e.tag = "Unconsumed" -> Custom("got more bytes than expected")
      [] e.tag = "Parse" -> consensus_error_into_serde(e.parse[1])

\* into_de_error turning every parse failure into a custom error of its name.
into_de_error_flatten(e) ==
    CASE e.tag = "Other" -> hex_DecodeError_into_de_error(e.other[1])
      [] e.tag = "Unconsumed" -> Custom("got more bytes than expected")
      [] e.tag = "Parse" -> Custom(e.parse[1].kind)

\* IntoDeError for DecodeError<E>, E being hex::DecodeError.
into_de_error(e) ==
    CASE e.tag = "Other" -> hex_DecodeError_into_de_error(e.other[1])
      [] e.tag = "Unconsumed" -> Custom("got more bytes than expected")
      [] e.tag = "Parse" -> consensus_error_into_serde(e.parse[1])

(***************************************************************************)
(* IterReader (crate::consensus), as the specification describes it: a     *)
(* byte reader over the iterator; a successful decode that leaves input    *)
(* is DecodeError::Unconsumed.                                             *)
(***************************************************************************)
\* The k-th item of the iterator the reader wraps.
Item(h, s, k) == IF h THEN Decoder_next(s, k) ELSE SeqIterator_next(s, k)

\* The number of items of a source.
Items(h, s) == IF h THEN Len(s) \div 2 ELSE Len(s)

\* Read::read into a buffer of n bytes, p items having been yielded: the bytes
\* copied, the items taken, and the error of the first item that is one.
IterReader_read(h, s, p, n) ==
    LET avail == Min(n, Items(h, s) - p)
        bad == {j \in 1..avail : ~Item(h, s, p + j)[1].ok}
        stop == IF bad = {} THEN avail ELSE CHOOSE j \in bad : \A i \in bad : j <= i
    IN  [bytes |-> [j \in 1..(IF bad = {} THEN avail ELSE stop - 1) |-> Item(h, s, p + j)[1].byte],
         taken |-> stop,
         error |-> IF bad = {} THEN <<>> ELSE <<Item(h, s, p + stop)[1].err>>]

\* What consensus_decode returns: Ok(value), Err(Io) or Err(Parse(p)).
DR_Ok == [tag |-> "Ok", parse |-> <<>>]
DR_Io == [tag |-> "Io", parse |-> <<>>]
DR_Parse(p) == [tag |-> "Parse", parse |-> <<p>>]

\* IterReader::decode once consensus_decode has returned r: <<>> for Ok(value),
\* else <<e>> for Err(e).
IterReader_decode(h, s, p, r, rerr) ==
    IF r.tag = "Ok"
    THEN IF Item(h, s, p + 1) # <<>> THEN <<DE_Unconsumed>> ELSE <<>>
    ELSE IF r.tag = "Io" THEN <<DE_Other(rerr[1])>>
    ELSE <<DE_Parse(r.parse[1])>>

(***************************************************************************)
(* With::deserialize                                                       *)
(***************************************************************************)
\* The code units of the strings given to visit_str: '0', 'a', 'F', 'g', 'z'
\* and a code unit of a character that is not ASCII.
Alphabet == {48, 97, 70, 103, 122, 195}
RECURSIVE SeqsUpTo(_, _)
SeqsUpTo(S, n) ==
    IF n = 0 THEN {<<>>}
    ELSE LET shorter == SeqsUpTo(S, n - 1)
         IN  shorter \cup {Append(q, x) : q \in {t \in shorter : Len(t) = n - 1}, x \in S}
StrSources == SeqsUpTo(Alphabet, MaxStrLen)
SeqSources == SeqsUpTo({0, 7, 255, -1}, MaxSeqLen)

\* HRVisitor::visit_str.
HRVisitor_visit_str(s) ==
    LET d == Decoder_new(s)
    IN  IF ~d.ok
        THEN /\ dresult' = <<"Err", DecodeInitError_into_de_error(d.length)>>
             /\ decInvoked' = FALSE
             /\ pc' = "de_done"
        ELSE /\ dresult' = <<>>
             /\ decInvoked' = TRUE
             /\ pc' = "decoding"

\* BinVisitor::visit_seq.
BinVisitor_visit_seq(s) ==
    /\ dresult' = <<>>
    /\ decInvoked' = TRUE
    /\ pc' = "decoding"

\* With::deserialize on a source of its own.
Deserialize ==
    /\ pc = "idle"
    /\ \E h \in BOOLEAN :
        /\ hr' = h
        /\ \E s \in (IF h THEN StrSources ELSE SeqSources) :
            /\ dsrc' = s
            /\ IF h THEN HRVisitor_visit_str(s) ELSE BinVisitor_visit_seq(s)
    /\ fromSer' = FALSE
    /\ UNCHANGED <<debug, serVars, dpos, delivered, rerror, reads, decResult, derr>>

\* With::deserialize on what With::serialize gave a target that accepted every
\* write.  The serialize call is over: its adapters are dropped, and the model keeps
\* of it the stream that was encoded (seed, pos) and what the target received.
DeserializeOutput ==
    /\ pc = "ser_done"
    /\ result = <<"Ok">>
    /\ sinkFailures = 0
    /\ LET s == IF hr THEN Flatten(sink) ELSE elements
       IN  /\ dsrc' = s
           /\ IF hr THEN HRVisitor_visit_str(s) ELSE BinVisitor_visit_seq(s)
    /\ fromSer' = TRUE
    /\ buf' = <<>>
    /\ was_error' = FALSE
    /\ error' = <<>>
    /\ writes' = 0
    /\ flushCalls' = 0
    /\ ioFlushCalls' = 0
    /\ collectStrCalls' = 0
    /\ seqOpens' = 0
    /\ seqLenHint' = <<>>
    /\ endCalls' = 0
    /\ lastWrite' = NoWrite
    /\ UNCHANGED <<hr, debug, hcase, seed, pos, sink, sinkFailures, elements,
                   encResult, result, failLog, dpos, delivered, rerror, reads,
                   decResult, derr>>

ReadSizes == {1, BufBytes + 1, MaxBytes}

\* The native decoder reads; after a read that failed it reads no more.
Read ==
    /\ pc = "decoding"
    /\ rerror = <<>>
    /\ reads < MaxReads
    /\ \E n \in ReadSizes :
        LET r == IterReader_read(hr, dsrc, dpos, n)
        IN  /\ delivered' = delivered \o r.bytes
            /\ dpos' = dpos + r.taken
            /\ rerror' = r.error
    /\ reads' = reads + 1
    /\ UNCHANGED <<pc, hr, debug, serVars, dsrc, fromSer, decInvoked, decResult, derr,
                   dresult>>

\* What consensus_decode returns: the io error of a read that failed, else Ok or
\* a parse failure.
DecodeResults(rerr) ==
    IF rerr # <<>> THEN {DR_Io} ELSE {DR_Ok} \cup {DR_Parse(p) : p \in ParseErrors}

\* consensus_decode returns: IterReader::decode, and the map_err of the visitor.
DecodeReturns ==
    /\ pc = "decoding"
    /\ \E r \in DecodeResults(rerror) :
        LET d == IterReader_decode(hr, dsrc, dpos, r, rerror)
        IN  /\ decResult' = <<r>>
            /\ derr' = d
            /\ dresult' = IF d = <<>> THEN <<"Ok">>
                          ELSE IF hr THEN <<"Err", into_de_error(d[1])>>
                          ELSE <<"Err", unify(d[1])>>
            /\ dpos' = IF r.tag = "Ok" /\ Item(hr, dsrc, dpos + 1) # <<>> THEN dpos + 1 ELSE dpos
    /\ pc' = "de_done"
    /\ UNCHANGED <<hr, debug, serVars, dsrc, fromSer, delivered, rerror, decInvoked, reads>>

Next ==
    \/ SerializeHR
    \/ SerializeBin
    \/ WriteHR
    \/ WriteBin
    \/ IoWrapper_flush
    \/ BinWriter_flush
    \/ ReturnHR
    \/ ReturnBin
    \/ Deserialize
    \/ DeserializeOutput
    \/ Read
    \/ DecodeReturns

Spec == Init /\ [][Next]_vars


(***************************************************************************)
(* Properties                                                              *)
(***************************************************************************)
\* The sum of the lengths of a sequence of strings.
RECURSIVE TotalLen(_)
TotalLen(ss) == IF ss = <<>> THEN 0 ELSE TotalLen(SubSeq(ss, 1, Len(ss) - 1)) + Len(ss[Len(ss)])

\* C1: round trip.  Deserializing what serialize gave the target (the hex string,
\* or the sequence of bytes) yields to the native decoder the bytes the native
\* encoder wrote, in order and with no error: the source holds exactly the pos
\* bytes of the stream, what was delivered is a prefix of the stream, and a
\* decode that returns Ok has been handed the whole stream.
C1_RoundTrip ==
    (fromSer /\ pc \in {"decoding", "de_done"}) =>
        /\ decInvoked
        /\ rerror = <<>>
        /\ Items(hr, dsrc) = pos
        /\ Len(dsrc) = IF hr THEN 2 * pos ELSE pos
        /\ Len(delivered) <= pos
        /\ delivered = Chunk(seed, 0, Len(delivered))
        /\ (pc = "decoding" /\ reads = 0 =>
                \A k \in 1..pos :
                    /\ Item(hr, dsrc, k)[1].ok
                    /\ Item(hr, dsrc, k)[1].byte = ByteAt(seed, k))
        /\ (pc = "de_done" /\ dresult = <<"Ok">> => delivered = Written(seed, pos))
        /\ (pc = "de_done" /\ decResult = <<DR_Ok>> /\ Len(delivered) = pos
                => dresult = <<"Ok">>)

\* A human-readable round trip of a stream that took two flushes inside
\* encode_chunk, decoded to the end.
C1_Witness ==
    /\ fromSer /\ hr /\ pc = "de_done"
    /\ dresult = <<"Ok">>
    /\ pos > 2 * BufBytes
    /\ Len(sink) = 3
    /\ delivered = Written(seed, pos)

\* The text of one encode_chunk call on the whole stream followed by flush, the
\* sink accepting every write.
OneShotText(c, bytes) ==
    LET fresh == [buf |-> <<>>,
                  w   |-> [sink |-> <<>>, was_error |-> FALSE, fails |-> 0, res |-> "Ok"]]
        whole == encode_chunk(TRUE, c, fresh, bytes, 0)
    IN  Flatten(flush(TRUE, whole, FALSE).w.sink)

\* C2: chunk-boundary independence.  When the final flush has returned Ok and the
\* sink accepted every write, the text the sink received over the write calls of
\* the run is the text of one encode_chunk of the whole stream followed by flush.
C2_ChunkIndependent ==
    (hr /\ pc = "ser_done" /\ result = <<"Ok">> /\ sinkFailures = 0) =>
        Flatten(sink) = OneShotText(hcase, Written(seed, pos))

\* Three write calls whose stream forced two flushes inside encode_chunk.
C2_Witness ==
    /\ hr /\ pc = "ser_done" /\ result = <<"Ok">> /\ sinkFailures = 0
    /\ writes = 3
    /\ pos = 2 * BufBytes + 1
    /\ Len(sink) = 3

\* C3: leftover input.  When the native decoder has returned Ok, deserialize
\* returns Ok only if every item of the source was read; if an item is left it
\* returns the custom error "got more bytes than expected" of
\* DecodeError::Unconsumed.
C3_Leftover ==
    (pc = "de_done" /\ decResult = <<DR_Ok>>) =>
        IF Len(delivered) < Items(hr, dsrc)
        THEN /\ derr = <<DE_Unconsumed>>
             /\ dresult = <<"Err", Custom("got more bytes than expected")>>
        ELSE /\ derr = <<>>
             /\ dresult = <<"Ok">>

\* A binary source with one element more than the native decoder read.
C3_Witness ==
    /\ ~hr /\ pc = "de_done" /\ decResult = <<DR_Ok>>
    /\ Len(dsrc) = 2
    /\ Len(delivered) = 1
    /\ dresult = <<"Err", Custom("got more bytes than expected")>>

\* C4: odd length.  A string of odd length given to visit_str ends the call at
\* once with invalid_length carrying the length of the string and the text "an
\* even number of ASCII-encoded hex digits"; the native decoder is not invoked and
\* nothing is read or decoded.
C4_OddLength ==
    (hr /\ pc \in {"decoding", "de_done"} /\ Len(dsrc) % 2 = 1) =>
        /\ pc = "de_done"
        /\ dresult = <<"Err", [kind |-> "invalid_length", msg |-> "", len |-> Len(dsrc),
                               ukind |-> "", unum |-> 0, ubytes |-> <<>>,
                               exp |-> "an even number of ASCII-encoded hex digits"]>>
        /\ ~decInvoked
        /\ decResult = <<>>
        /\ reads = 0
        /\ dpos = 0
        /\ delivered = <<>>

\* A string of three code units was rejected.
C4_Witness ==
    /\ hr /\ pc = "de_done"
    /\ Len(dsrc) = 3
    /\ dresult # <<>>
    /\ dresult[1] = "Err"
    /\ dresult[2].len = 3

\* The hex digits: the code units of either digit table.
IsHexDigit(c) == \E d \in 1..16 : c = CaseTable("Lower")[d] \/ c = CaseTable("Upper")[d]
HexDigitValue(c) == (CHOOSE d \in 1..16 : c = CaseTable("Lower")[d] \/ c = CaseTable("Upper")[d]) - 1

\* C5: bad character.  On a string of even length given to visit_str, the bytes
\* delivered are the values of the leading pairs in order; with k0 the first pair
\* that holds a code unit that is no hex digit and c0 the first such code unit of
\* that pair, nothing of pair k0 or of a later pair is delivered, the iterator does
\* not go past pair k0, the error kept is the one of c0, and the failure reported is
\* invalid_value of c0 (Char if ASCII, else Unsigned).
C5_BadCharStop ==
    (hr /\ ~fromSer /\ pc \in {"decoding", "de_done"} /\ Len(dsrc) % 2 = 0) =>
        LET bad == {k \in 1..(Len(dsrc) \div 2) :
                        ~IsHexDigit(dsrc[2 * k - 1]) \/ ~IsHexDigit(dsrc[2 * k])}
        IN  /\ \A j \in 1..Len(delivered) :
                    /\ j \notin bad
                    /\ delivered[j] = 16 * HexDigitValue(dsrc[2 * j - 1])
                                      + HexDigitValue(dsrc[2 * j])
            /\ bad = {} => rerror = <<>>
            /\ bad # {} =>
                LET k0 == CHOOSE k \in bad : \A i \in bad : k <= i
                    c0 == IF ~IsHexDigit(dsrc[2 * k0 - 1]) THEN dsrc[2 * k0 - 1]
                                                           ELSE dsrc[2 * k0]
                IN  /\ Len(delivered) < k0
                    /\ dpos <= k0
                    /\ rerror # <<>> => (rerror = <<c0>> /\ dpos = k0)
                    /\ (pc = "de_done" /\ decResult = <<DR_Io>>) =>
                          dresult = <<"Err", [kind |-> "invalid_value", msg |-> "",
                                              len |-> 0,
                                              ukind |-> IF c0 < 128 THEN "Char"
                                                                    ELSE "Unsigned",
                                              unum |-> c0, ubytes |-> <<>>,
                                              exp |-> "an ASCII-encoded hex digit"]>>

\* "0g" followed by the pair "00": the failure reports 'g' (103) and no byte of
\* either pair was delivered.
C5_Witness ==
    /\ hr /\ pc = "de_done"
    /\ dsrc = <<48, 103, 48, 48>>
    /\ delivered = <<>>
    /\ dresult # <<>>
    /\ dresult[1] = "Err"
    /\ dresult[2].ukind = "Char"
    /\ dresult[2].unum = 103


\* The hex text of a byte sequence, digit by digit: '0'..'9' are 48..57, and
\* 'a' is 97 and 'A' is 65.
HexText(c, bytes) ==
    LET digit(d) == IF d < 10 THEN 48 + d ELSE (IF c = "Lower" THEN 97 ELSE 65) + (d - 10)
    IN  [i \in 1..(2 * Len(bytes)) |->
            IF i % 2 = 1 THEN digit(bytes[(i + 1) \div 2] \div 16)
                         ELSE digit(bytes[i \div 2] % 16)]

\* C6: dispatch of serialize.  On a human-readable target serialize calls
\* collect_str once and opens no sequence, and on success the string it has
\* written is the complete hex text of the bytes of the native encoder.  On any
\* other target it opens one sequence with no length, hands over no string, passes
\* the bytes of the native encoder as the elements in order, and calls end once,
\* and only after the native encoder returned Ok.
C6_Dispatch ==
    (pc \in {"encoding", "ser_done", "panic"}) =>
        IF hr
        THEN /\ collectStrCalls = 1
             /\ seqOpens = 0
             /\ elements = <<>>
             /\ endCalls = 0
             /\ (pc = "ser_done" /\ result = <<"Ok">> /\ sinkFailures = 0
                    => Flatten(sink) = HexText(hcase, Written(seed, pos)))
        ELSE /\ collectStrCalls = 0
             /\ sink = <<>>
             /\ seqOpens = 1
             /\ seqLenHint = << <<>> >>
             /\ endCalls <= 1
             /\ (endCalls = 1 => pc = "ser_done" /\ encResult = "Ok")
             /\ (pc = "ser_done" /\ encResult = "Ok" => endCalls = 1)
             /\ (pc = "encoding" => endCalls = 0)
             /\ (sinkFailures = 0 => elements = Written(seed, pos))
             /\ (result = <<"Ok">> => endCalls = 1 /\ elements = Written(seed, pos))

\* A binary serialize of more than a buffer of bytes that closed its sequence.
C6_Witness ==
    /\ ~hr /\ pc = "ser_done" /\ result = <<"Ok">>
    /\ seqOpens = 1
    /\ endCalls = 1
    /\ Len(elements) > BufBytes
    /\ elements = Written(seed, pos)

C8_FinalFlushOnce ==
    [][ /\ (hr' /\ pc' = "encoding") => flushCalls' = 0
        /\ (hr' /\ pc' \in {"ser_done", "panic"}) =>
              flushCalls' = IF encResult' = "Ok" THEN 1 ELSE 0
        /\ (hr /\ pc = "encoding" /\ ioFlushCalls' # ioFlushCalls) =>
              UNCHANGED <<pc, buf, sink, was_error, sinkFailures, flushCalls>>
      ]_vars

\* An encode of no bytes, with an io flush, ended by the one final flush, which
\* wrote the empty string.
C8_Witness ==
    /\ hr /\ pc = "ser_done" /\ result = <<"Ok">>
    /\ pos = 0
    /\ ioFlushCalls = 1
    /\ flushCalls = 1
    /\ sink = << <<>> >>

C10_Original ==
    /\ Len(buf) <= HEX_BUF_SIZE
    /\ (hr /\ pc = "ser_done" /\ flushCalls = 1) => buf = <<>>

\* C10, amended: the buffered text never exceeds the capacity; as long as the
\* sink accepts every write, every string written from inside encode_chunk is a
\* full buffer and the text written plus the text buffered is the text of the
\* bytes encoded (a flush that returns Ok leaves nothing in the buffer, and what
\* is appended after it is only what follows); and when the final flush has
\* returned Ok the buffer holds no data.
C10_Buffer ==
    /\ Len(buf) <= HEX_BUF_SIZE
    /\ (hr /\ pc = "encoding" /\ sinkFailures = 0) =>
            /\ \A i \in 1..Len(sink) : Len(sink[i]) = HEX_BUF_SIZE
            /\ TotalLen(sink) + Len(buf) = 2 * pos
    /\ (hr /\ pc = "ser_done" /\ flushCalls = 1 /\ result = <<"Ok">>) => buf = <<>>

\* A final flush that returned Ok after two flushes inside encode_chunk.
C10_Witness ==
    /\ hr /\ pc = "ser_done" /\ result = <<"Ok">>
    /\ flushCalls = 1
    /\ Len(sink) = 3
    /\ buf = <<>>

\* The digits of a case.
CaseDigits(c) == {CaseTable(c)[d] : d \in 1..16}

\* C11: no split byte.  The text buffered and every string the sink was handed
\* (the buffer, at a flush inside encode_chunk or at the final flush) has even
\* length and is made of digits of the case; as long as the sink accepts every
\* write, the i-th string is the two-digit encodings of the whole bytes of the
\* stream that follow the bytes of the strings before it, so that both digits of
\* a byte are in the same string.
C11_NoSplitByte ==
    (hr /\ pc \in {"encoding", "ser_done", "panic"}) =>
        /\ Len(buf) % 2 = 0
        /\ \A i \in 1..Len(sink) :
              /\ Len(sink[i]) % 2 = 0
              /\ sinkFailures > 0 =>
                    {sink[i][j] : j \in 1..Len(sink[i])} \subseteq CaseDigits(hcase)
              /\ sinkFailures = 0 =>
                    sink[i] = HexText(hcase, Chunk(seed, TotalLen(SubSeq(sink, 1, i - 1)) \div 2,
                                                   Len(sink[i]) \div 2))

\* A write of one byte on a full buffer, after a write that crossed the end of
\* the buffer in its middle: two full strings written, one byte buffered.
C11_Witness ==
    /\ hr /\ pc = "encoding" /\ sinkFailures = 0
    /\ writes = 3
    /\ lastWrite.count = 1
    /\ Len(sink) = 2
    /\ Len(buf) = 2

\* C12: encode_chunk consumes everything.  A write call of the human-readable
\* path during which, as before it, the sink accepts every write returns Ok,
\* whatever the length n of the slice (0, or more than the buffer holds); with b
\* bytes buffered before it, it has flushed once for every time the buffer was
\* full with bytes left to append, that is (b + n - 1) \div 256 times, each time
\* writing a full buffer and starting again from an empty one; and the text
\* written and buffered after it is the text before it followed by the text of
\* every byte of the slice.
C12_ConsumesAll ==
    [][ (hr /\ pc = "encoding" /\ writes' = writes + 1 /\ sinkFailures' = 0) =>
          LET n == pos' - pos
              b == Len(buf) \div 2
              flushes == IF n = 0 THEN 0 ELSE (b + n - 1) \div BufBytes
          IN  /\ pc' = "encoding"
              /\ lastWrite'.res = "Ok"
              /\ Len(sink') = Len(sink) + flushes
              /\ \A i \in (Len(sink) + 1)..Len(sink') : Len(sink'[i]) = HEX_BUF_SIZE
              /\ Len(buf') = 2 * (b + n) - HEX_BUF_SIZE * flushes
              /\ Flatten(sink') \o buf' =
                    Flatten(sink) \o buf \o HexText(hcase, Chunk(seed, pos, n))
      ]_vars

\* One write of 513 bytes, twice the buffer and one more: it returned Ok after two
\* flushes, and one byte is buffered.
C12_Witness ==
    /\ hr /\ pc = "encoding" /\ sinkFailures = 0
    /\ writes = 1
    /\ lastWrite.res = "Ok"
    /\ pos = 2 * BufBytes + 1
    /\ Len(sink) = 2
    /\ Len(buf) = 2

\* C13: the error flag is write-once.  was_error is false when the adapter is
\* built; in a debug build, over every step of the call (a write, an io flush,
\* the return with the final flush) it is true after the step exactly if it was
\* true before it or the sink failed a write of that step; so it becomes true at
\* the first failure of the sink, and once true it stays true to the end of the
\* call.
C13_ErrorFlagWriteOnce ==
    [][ /\ (pc = "idle" /\ pc' = "encoding" /\ hr') => ~was_error'
        /\ (hr /\ pc = "encoding") =>
              /\ was_error => was_error'
              /\ debug => (was_error' <=> (was_error \/ sinkFailures' > sinkFailures))
      ]_vars

\* The sink failed the flush of the second write, and a third write, of no
\* bytes, returned Ok with the flag still set.
C13_Witness ==
    /\ debug /\ hr /\ pc = "encoding"
    /\ was_error
    /\ sinkFailures = 1
    /\ writes = 3
    /\ lastWrite.res = "Ok"

\* C14: no unexplained error on the text path.  A write call on the IoWrapper
\* that returns Ok reports the length of the whole slice, and the sink failed no
\* write during it.  One that returns an error returns an io::Error of kind Other
\* without a cause, the sink failed a write during that call, and in a debug build
\* was_error is set by then.  One that panics was made, in a debug build, with
\* was_error already set and reached the sink with nothing: the panic is the one
\* of assert_no_error, never the one of assert_was_error.
C14_NoUnexplainedError ==
    [][ (hr /\ pc = "encoding" /\ writes' = writes + 1) =>
          /\ lastWrite'.res \in {"Ok", "Err", "Panic"}
          /\ lastWrite'.res = "Ok" =>
                /\ lastWrite'.count = pos' - pos
                /\ sinkFailures' = sinkFailures
                /\ pc' = "encoding"
          /\ lastWrite'.res = "Err" =>
                /\ lastWrite'.kind = "Other"
                /\ ~lastWrite'.cause
                /\ sinkFailures' = sinkFailures + 1
                /\ lastWrite'.failed > 0
                /\ debug => was_error'
                /\ pc' = "encoding"
          /\ lastWrite'.res = "Panic" =>
                /\ debug
                /\ was_error
                /\ sinkFailures' = sinkFailures
                /\ sink' = sink
                /\ pc' = "panic"
      ]_vars

\* A write of 257 bytes on a full buffer whose second flush the sink failed: it
\* returned the error of kind Other, with was_error set.
C14_Witness ==
    /\ debug /\ hr /\ pc = "encoding"
    /\ lastWrite.res = "Err"
    /\ lastWrite.kind = "Other"
    /\ lastWrite.failed = 2
    /\ was_error
    /\ Len(sink) = 1

\* C15: no write after error.  In a debug build, a write call of at least one
\* byte that the native encoder makes after the target has failed (a write_str of
\* the text sink, or a serialize_element of the sequence sink) panics, and hands
\* the target nothing: no string, no element, and no call that could fail.
C15_NoWriteAfterError ==
    [][ (debug /\ pc = "encoding" /\ sinkFailures > 0 /\ writes' = writes + 1
               /\ pos' > pos) =>
          /\ pc' = "panic"
          /\ sink' = sink
          /\ elements' = elements
          /\ sinkFailures' = sinkFailures
      ]_vars

\* C16: a binary write aborts at the first failure.  In a write call on the
\* BinWriter with a slice of n bytes: if the sink fails the f-th serialize_element
\* of the call (index f - 1), the sink has accepted exactly the f - 1 bytes before
\* it, in order, and nothing after it, that failure is the only one of the call,
\* its error is the one stored in BinWriter::error, and the call returns an
\* io::Error of kind Other without a cause; if the sink fails none, it has accepted
\* all n bytes in order, the stored error is as before, and the call returns Ok(n).
C16_BinWriteAborts ==
    [][ (~hr /\ pc = "encoding" /\ writes' = writes + 1) =>
          LET n == pos' - pos
              bytes == Chunk(seed, pos, n)
              f == lastWrite'.failed
          IN  /\ pc' = "encoding"
              /\ IF f > 0
                 THEN /\ f <= n
                      /\ elements' = elements \o SubSeq(bytes, 1, f - 1)
                      /\ sinkFailures' = sinkFailures + 1
                      /\ failLog' = Append(failLog, "serialize_element")
                      /\ error' = <<Len(failLog')>>
                      /\ lastWrite'.res = "Err"
                      /\ lastWrite'.kind = "Other"
                      /\ ~lastWrite'.cause
                 ELSE /\ elements' = elements \o bytes
                      /\ sinkFailures' = sinkFailures
                      /\ failLog' = failLog
                      /\ error' = error
                      /\ lastWrite'.res = "Ok"
                      /\ lastWrite'.count = n
      ]_vars

\* A write of 257 bytes whose last element the sink failed: 256 elements
\* accepted, the error stored.
C16_Witness ==
    /\ ~hr /\ pc = "encoding"
    /\ writes = 1
    /\ lastWrite.res = "Err"
    /\ lastWrite.failed = BufBytes + 1
    /\ Len(elements) = BufBytes
    /\ error = <<1>>

\* The failures of an operation of the target, by their ids.
FailuresOf(op) == {i \in 1..Len(failLog) : failLog[i] = op}

\* C17 as stated: whenever serialize returns Err(e) on the binary path, an
\* element of the sequence failed and e is the error of the first
\* serialize_element that failed; and end() is not called once a failure of the
\* sink is recorded.
C17_Original ==
    /\ (~hr /\ pc = "ser_done" /\ result # <<>> /\ result[1] = "Err") =>
            /\ FailuresOf("serialize_element") # {}
            /\ \A i \in FailuresOf("serialize_element") : result[2] <= i
            /\ result[2] \in FailuresOf("serialize_element")
    /\ (~hr /\ endCalls > 0) => (error = <<>> /\ FailuresOf("serialize_element") = {})

\* C17, amended: whenever serialize returns Err(e) on the binary path, e is an
\* error the target returned in that call, and the last one it returned: the error
\* of serialize_seq when the sequence could not be opened (nothing was encoded
\* then); or the error stored in BinWriter::error, which is the error of the most
\* recent serialize_element that failed, the native encoder having returned an
\* error of kind Other without a cause; or the error of end(), called after the
\* native encoder returned Ok with no failure recorded.  And end() is not called
\* once a failure of the sink is recorded.
C17_Propagated ==
    /\ (~hr /\ pc = "ser_done" /\ result # <<>> /\ result[1] = "Err") =>
            LET e == result[2]
            IN  /\ e \in 1..Len(failLog)
                /\ e = Len(failLog)
                /\ failLog[e] = "serialize_seq" =>
                        /\ FailuresOf("serialize_element") = {}
                        /\ encResult = "none"
                        /\ elements = <<>>
                        /\ endCalls = 0
                /\ failLog[e] = "serialize_element" =>
                        /\ error = <<e>>
                        /\ \A i \in FailuresOf("serialize_element") : i <= e
                        /\ encResult = "Other"
                        /\ endCalls = 0
                /\ failLog[e] = "end" =>
                        /\ FailuresOf("serialize_element") = {}
                        /\ error = <<>>
                        /\ encResult = "Ok"
                        /\ endCalls = 1
    /\ (~hr /\ endCalls > 0) => (error = <<>> /\ FailuresOf("serialize_element") = {})

\* The sink failed the element after 256 accepted ones, the native encoder
\* returned the error of that write, and serialize returned the sink's error
\* without closing the sequence.
C17_Witness ==
    /\ ~hr /\ pc = "ser_done"
    /\ result = <<"Err", 1>>
    /\ failLog = <<"serialize_element">>
    /\ Len(elements) = BufBytes
    /\ encResult = "Other"
    /\ endCalls = 0

\* C18: lazy flush.  A write call on the IoWrapper calls write_str of the sink
\* only with a slice of at least one byte and a buffer that is full, or that the
\* slice overfills; what it writes then is a full buffer each time, and first the
\* buffer it found full.  A slice that fits, one that fills the buffer exactly
\* included, is buffered whole and the sink is not called; an empty slice changes
\* nothing.  So while at most 256 bytes have been encoded the sink has not been
\* called, and when the native encoder has returned Ok after at most 256 bytes
\* the sink has been called once: by the final flush.
C18_LazyFlush ==
    [][ /\ (hr /\ pc = "encoding" /\ writes' = writes + 1) =>
              LET n == pos' - pos
                  calls == (Len(sink') - Len(sink)) + (sinkFailures' - sinkFailures)
              IN  /\ n = 0 =>
                        /\ UNCHANGED <<buf, sink, sinkFailures, was_error>>
                        /\ lastWrite'.res = "Ok"
                  /\ Len(buf) + 2 * n <= HEX_BUF_SIZE =>
                        /\ calls = 0
                        /\ sink' = sink
                        /\ Len(buf') = Len(buf) + 2 * n
                  /\ calls > 0 =>
                        /\ n > 0
                        /\ Len(buf) + 2 * n > HEX_BUF_SIZE
                  /\ \A i \in (Len(sink) + 1)..Len(sink') : is_full(sink'[i])
                  /\ (is_full(buf) /\ Len(sink') > Len(sink)) => sink'[Len(sink) + 1] = buf
        /\ (hr' /\ pc' = "encoding" /\ pos' <= BufBytes) =>
              (sink' = <<>> /\ sinkFailures' = 0)
        /\ (hr' /\ pc' = "ser_done" /\ encResult' = "Ok" /\ pos' <= BufBytes) =>
              (Len(sink') + sinkFailures' = 1 /\ flushCalls' = 1)
      ]_vars

\* A write of 256 bytes on an empty buffer returned Ok with the buffer full and
\* nothing written.
C18_Witness ==
    /\ hr /\ pc = "encoding"
    /\ writes = 1
    /\ lastWrite.res = "Ok"
    /\ lastWrite.count = BufBytes
    /\ is_full(buf)
    /\ sink = <<>>
    /\ sinkFailures = 0

\* C19: the two unification paths agree.  When deserialize ends with a
\* DecodeError that is Unconsumed or Parse, unify (the binary path) and
\* into_de_error (the human-readable path) give the same error for it, and that
\* error is the one returned, whichever path the call took.  For Other the paths
\* differ: the binary path returns the error of the source as it is, the
\* human-readable path the conversion of the error of the hex decoder.
C19_PathsAgree ==
    (pc = "de_done" /\ derr # <<>>) =>
        LET e == derr[1]
        IN  /\ e.tag \in {"Unconsumed", "Parse", "Other"}
            /\ e.tag \in {"Unconsumed", "Parse"} =>
                    /\ unify(e) = into_de_error(e)
                    /\ dresult = <<"Err", unify(e)>>
                    /\ dresult = <<"Err", into_de_error(e)>>
            /\ e.tag = "Other" =>
                    dresult = <<"Err", IF hr THEN hex_DecodeError_into_de_error(e.other[1])
                                             ELSE e.other[1]>>

\* The human-readable path reported a compact size that was not minimal.
C19_Witness ==
    /\ hr /\ pc = "de_done"
    /\ derr = <<DE_Parse(NonMinimalVarInt)>>
    /\ dresult = <<"Err", Custom("compact size was not encoded minimally")>>


=============================================================================
